---- MODULE Spec2Model ----
(***************************************************************************)
(* Model of simple_action_server/main.py: the resolution of a request      *)
(* (command, path) to an Action by ActionRequestHandler._find_action, with *)
(* the class-level state it shares between requests (_actions,             *)
(* _action_modules, _fallback, action_sources).                            *)
(*                                                                         *)
(* Spec resolves requests one after the other against module-origin        *)
(* sources; ServeSpec serves them (_dispatch, handle_expect_100) against   *)
(* all kinds of sources, with the exceptions the code lets through;        *)
(* WorkersSpec interleaves the steps of two workers.                       *)
(*                                                                         *)
(* Strings are sequences of atomic tokens.  A token is a run of characters *)
(* that holds none of the separators the code splits or joins on, and the  *)
(* separators "/", "?", " " and "_" are tokens of their own, so that       *)
(* split, join, strip and lstrip are computed as the code computes them.   *)
(***************************************************************************)
EXTENDS Integers, Sequences, FiniteSets, TLC

VARIABLES action_sources, fallback, actions, action_modules, modattrs, preset, resolved,
          last, reply, workers

vars == <<action_sources, fallback, actions, action_modules, modattrs, preset, resolved,
          last, reply, workers>>

(***************************************************************************)
(* Strings                                                                 *)
(***************************************************************************)

\* str.join: the items of a list of strings, with sep between them
RECURSIVE Join(_, _)
Join(items, sep) ==
    IF items = <<>> THEN <<>>
    ELSE IF Len(items) = 1 THEN Head(items)
    ELSE Head(items) \o <<sep>> \o Join(Tail(items), sep)

\* str.lstrip(ch)
RECURSIVE LStrip(_, _)
LStrip(s, ch) ==
    IF s # <<>> /\ Head(s) = ch THEN LStrip(Tail(s), ch) ELSE s

\* the text with its trailing ch characters removed
RECURSIVE RStrip(_, _)
RStrip(s, ch) ==
    IF s # <<>> /\ s[Len(s)] = ch THEN RStrip(SubSeq(s, 1, Len(s) - 1), ch) ELSE s

\* str.strip() of the error identifiers: blanks on both ends
Strip(s) == RStrip(LStrip(s, " "), " ")

\* the commands a request line can carry, with str.upper and str.lower
Commands == {"GET", "POST"}

Upper(verb) == CASE verb = "GET" -> "GET"
                 [] verb = "get" -> "GET"
                 [] verb = "POST" -> "POST"
                 [] verb = "post" -> "POST"

Lower(verb) == CASE verb = "GET" -> "get"
                 [] verb = "get" -> "get"
                 [] verb = "POST" -> "post"
                 [] verb = "post" -> "post"

\* urlparse(path).path: the request target up to the query string
RECURSIVE urlparse_path(_)
urlparse_path(path) ==
    IF path = <<>> \/ Head(path) = "?" THEN <<>>
    ELSE <<Head(path)>> \o urlparse_path(Tail(path))

\* str.split(sep): the pieces between the separators, empty ones included
RECURSIVE Split(_, _)
Split(s, sep) ==
    IF s = <<>> THEN <<<<>>>>
    ELSE LET rest == Split(Tail(s), sep)
         IN  IF Head(s) = sep THEN <<<<>>>> \o rest
             ELSE <<<<Head(s)>> \o Head(rest)>> \o Tail(rest)

\* line 260: list(filter(None, urlparse(path).path.split('/')))
split_parts(path) == SelectSeq(Split(urlparse_path(path), "/"), LAMBDA part : part # <<>>)

action_identifier(verb, url) == <<Upper(verb), " ">> \o url

\* _request_identifier: the key of a request in _actions
request_identifier(command, path) == action_identifier(command, urlparse_path(path))

(***************************************************************************)
(* Values                                                                  *)
(***************************************************************************)

None == [type |-> "None"]

\* the element of a one-element set: { e(x) : x \in {v} } names a value v
\* once, as an assignment to a local variable does
The(S) == CHOOSE x \in S : TRUE

\* a function object: the attribute `name` of module `module`
Function(module, name) == [type |-> "function", module |-> module, name |-> name]

\* Action.__init__: handler, origin and the keyword arguments bound to it
Action(handler, origin, kwargs) ==
    [type |-> "Action", handler |-> handler, origin |-> origin, kwargs |-> kwargs]

\* ActionRequestHandlerMeta.add_action
add_action(registry, verb, url, handler, origin) ==
    [k \in DOMAIN registry \cup {action_identifier(verb, url)} |->
        IF k = action_identifier(verb, url) THEN Action(handler, origin, {})
        ELSE registry[k]]

(***************************************************************************)
(* The importable world: the modules the import system can find and the    *)
(* attributes each of them defines (modattrs, chosen by Init).             *)
(***************************************************************************)

\* a function name from its words: '_'.join(words)
Name(words) == Join([i \in 1..Len(words) |-> <<words[i]>>], "_")

\* a loaded module: the source it belongs to and the dotted path below it
Module(source, subpath) == <<source, subpath>>

\* the modules that exist: the packages s1 and s2, the sub-modules s1.m and
\* s1.bad, the top-level module bad, and the package p1 of the directory p1
Modules == {Module("s1", <<>>), Module("s1", <<<<"m">>>>), Module("s2", <<>>),
            Module("s1", <<<<"bad">>>>), Module("bad", <<>>), Module("p1", <<>>)}

\* the modules whose code raises when it is executed
RaisingModules == {Module("s1", <<<<"bad">>>>), Module("bad", <<>>)}

\* the exception such a module raises: not a ModuleNotFoundError
ImportError == "RuntimeError"

\* the items of action_sources.  "s1", "s2", "bad" and "nx" are str items,
\* "d1" stands for the dict {'module': 's1'}, "p1" for {'path': 'p1'} and "px"
\* for {'path': 'px'}
DictItems == {"d1", "p1", "px"}

\* lines 386-395: the module name and the path of an item ("" for None)
item_name(item) ==
    IF item \in DictItems THEN (IF item = "d1" THEN "s1" ELSE "") ELSE item

item_path(item) == IF item \in {"p1", "px"} THEN item ELSE ""

\* importlib.util.find_spec on a top-level name: "nx" is not installed
find_spec_top(name) == IF name \in {"s1", "s2", "bad"} THEN "spec" ELSE "none"

\* line 405: import_module(os.path.basename(abs_path)); only p1 is importable
import_module(path) == IF path = "p1" THEN "loaded" ELSE "ModuleNotFoundError"

NoSpec == [status |-> "none", module |-> Module("", <<>>), exception |-> ""]

\* importlib.util.find_spec(name) for name = module.__name__ + '.' + part,
\* then spec.loader.load_module() (lines 330-346).  find_spec imports the
\* parents that a dotted part names before it looks for the last component.
\* status is "loaded"; "none" when there is no spec or find_spec raises
\* ModuleNotFoundError or ValueError; "unloadable" when load_module raises;
\* "raises" when find_spec raises anything else, which no handler catches.
RECURSIVE find_spec_name(_, _)
find_spec_name(module, names) ==
    LET sub == Module(module[1], module[2] \o <<Head(names)>>)
    IN  IF Head(names) = <<>> \/ sub \notin Modules THEN NoSpec
        ELSE IF Len(names) = 1
        THEN [status |-> IF sub \in RaisingModules THEN "unloadable" ELSE "loaded",
              module |-> sub, exception |-> ""]
        ELSE IF sub \in RaisingModules
        THEN [status |-> "raises", module |-> sub, exception |-> ImportError]
        ELSE find_spec_name(sub, Tail(names))

find_spec_sub(module, part) == find_spec_name(module, Split(part, "."))

hasattr(module, name) == name \in modattrs[module]

getattr(module, name) == Function(module, name)

(***************************************************************************)
(* ActionRequestHandler                                                    *)
(***************************************************************************)

\* load_action_modules with the sources taken from the last to the first
RECURSIVE load_action_modules_reversed(_)
load_action_modules_reversed(sources) ==
    IF sources = <<>> THEN <<>>
    ELSE LET name == sources[Len(sources)]
             rest == load_action_modules_reversed(SubSeq(sources, 1, Len(sources) - 1))
         IN  IF find_spec_top(name) = "spec"
             THEN <<[identifier |-> name, module |-> Module(name, <<>>), origin |-> "module"]>> \o rest
             ELSE rest

\* dict assignment _action_modules[key] = value: a new key goes to the end,
\* a key that is there keeps its place
catalog_put(catalog, entry) ==
    IF \E i \in 1..Len(catalog) : catalog[i].identifier = entry.identifier
    THEN [i \in 1..Len(catalog) |->
            IF catalog[i].identifier = entry.identifier THEN entry ELSE catalog[i]]
    ELSE Append(catalog, entry)

CatalogEntry(identifier, module, origin) ==
    [identifier |-> identifier, module |-> module, origin |-> origin]

Dropped == [loaded |-> FALSE, entry |-> CatalogEntry("", Module("", <<>>), ""), raised |-> ""]

\* lines 384-409, the body of the loop for one item: the entry it adds to
\* _action_modules, or the exception that leaves the loop.  find_spec is
\* handed the item itself (line 399), which for a dict raises AttributeError;
\* only ModuleNotFoundError is caught.
load_source(item) ==
    IF item_name(item) # ""
    THEN IF item \in DictItems THEN [Dropped EXCEPT !.raised = "AttributeError"]
         ELSE IF find_spec_top(item) # "spec" THEN Dropped
         ELSE IF Module(item, <<>>) \in RaisingModules
         THEN [Dropped EXCEPT !.raised = ImportError]
         ELSE [loaded |-> TRUE, raised |-> "",
               entry |-> CatalogEntry(item_name(item), Module(item, <<>>), "module")]
    ELSE IF item_path(item) # "" /\ import_module(item_path(item)) = "loaded"
    THEN [loaded |-> TRUE, raised |-> "",
          entry |-> CatalogEntry(item_path(item), Module(item_path(item), <<>>), "path")]
    ELSE Dropped

\* lines 383-409: the loop over the items that are left, with the catalog so
\* far; an exception ends it and leaves the catalog as it is
RECURSIVE load_sources(_, _)
load_sources(sources, catalog) ==
    IF sources = <<>> THEN [entries |-> catalog, raised |-> ""]
    ELSE LET out == load_source(Head(sources))
         IN  IF out.raised # "" THEN [entries |-> catalog, raised |-> out.raised]
             ELSE load_sources(Tail(sources),
                               IF out.loaded THEN catalog_put(catalog, out.entry)
                               ELSE catalog)

\* _load_action_modules, lines 382-409: the sources that load, in the order
\* of action_sources, each with its origin
load_action_modules(sources) == load_sources(sources, <<>>).entries

\* the exception that _load_action_modules lets through ("" for none)
load_raised(sources) == load_sources(sources, <<>>).raised

\* _find_module for a 'module' origin, lines 326-348: descend into the
\* sub-modules; raised is the exception that escapes ("" for none)
RECURSIVE find_module(_, _)
find_module(module, parts) ==
    IF parts = <<>> THEN [module |-> module, parts |-> parts, raised |-> ""]
    ELSE LET found == find_spec_sub(module, Head(parts))
         IN  IF found.status = "loaded" THEN find_module(found.module, Tail(parts))
             ELSE [module |-> module, parts |-> parts,
                   raised |-> IF found.status = "raises" THEN found.exception ELSE ""]

\* _find_module for a 'path' origin, lines 350-363: `base` is read at line
\* 353 (or, with no part left, at line 360) and is assigned nowhere before
find_module_path(module, parts) ==
    [module |-> module, parts |-> parts, raised |-> "UnboundLocalError"]

\* find_catchall with "any" tried before the verb
find_catchall_any_first(module, command) ==
    LET methods == <<"any", Lower(command)>>
        hits == SelectSeq(methods, LAMBDA m : hasattr(module, <<m>>))
    IN  IF hits = <<>> THEN None ELSE getattr(module, <<Head(hits)>>)

\* _find_catchall
find_catchall(module, command) ==
    LET methods == <<Lower(command), "any">>
        hits == SelectSeq(methods, LAMBDA m : hasattr(module, <<m>>))
    IN  IF hits = <<>> THEN None ELSE getattr(module, <<Head(hits)>>)

\* prefixes with "any" tried before the verb
prefixes_any_first(command) == <<<<"any">>, <<Lower(command)>>, <<>>>>

\* line 249
prefixes(command) == <<<<Lower(command)>>, <<"any">>, <<>>>>

\* line 272: '_'.join([prefix, function]).lstrip('_')
try_function(prefix, function) == LStrip(Join(<<prefix, function>>, "_"), "_")

\* lines 271-275: the first prefixed name that the module has
try_prefixes(module, command, function) ==
    LET names == [i \in 1..3 |-> try_function(prefixes(command)[i], function)]
        hits == SelectSeq(names, LAMBDA n : hasattr(module, n))
    IN  IF hits = <<>> THEN None ELSE getattr(module, Head(hits))

\* fallback_enabled with the flag ignored
fallback_always == TRUE

\* line 277: whether a shorter function name may be tried
fallback_enabled == fallback

\* match_origin with the remainder ignored
match_origin_direct(remainder) == "direct"

\* line 275: the origin of a function match
match_origin(remainder) == IF remainder = <<>> THEN "direct" ELSE "fallback"

NoMatch == [handler |-> None, origin |-> "none", tail |-> <<>>, remainder |-> <<>>]

\* lines 266-283: the while loop over parts, remainder collecting the popped
RECURSIVE match_function(_, _, _, _)
match_function(module, command, parts, remainder) ==
    IF parts = <<>> THEN NoMatch
    ELSE LET function == Join(parts, "_")
             found == try_prefixes(module, command, function)
         IN  IF found.type # "None"
             THEN [handler |-> found, origin |-> match_origin(remainder),
                   tail |-> parts, remainder |-> remainder]
             ELSE IF ~fallback_enabled THEN NoMatch
             ELSE match_function(module, command, SubSeq(parts, 1, Len(parts) - 1),
                                 <<parts[Len(parts)]>> \o remainder)

\* lines 260-288: the body of the loop over the sources, for one source
resolve_in_module(found, command) ==
    IF found.raised # ""
    THEN [handler |-> None, origin |-> "none", module |-> found.module,
          tail |-> <<>>, remainder |-> <<>>, ran |-> {"descend"}, raised |-> found.raised]
    ELSE IF found.parts # <<>>
    THEN The({ [handler |-> match.handler, origin |-> match.origin, module |-> found.module,
                tail |-> match.tail, remainder |-> match.remainder,
                ran |-> {"descend", "match"}, raised |-> ""] :
               match \in {match_function(found.module, command, found.parts, <<>>)} })
    ELSE [handler |-> find_catchall(found.module, command), origin |-> "direct",
          module |-> found.module, tail |-> <<>>, remainder |-> <<>>,
          ran |-> {"descend", "catchall"}, raised |-> ""]

\* line 261: (module, parts) = self._find_module(identifier, parts), and the
\* rest of the loop body on what it returned
resolve_in_source(entry, command, path) ==
    The({ resolve_in_module(found, command) :
          found \in {IF entry.origin = "path"
                     THEN find_module_path(entry.module, split_parts(path))
                     ELSE find_module(entry.module, split_parts(path))} })

NoSource == [handler |-> None, origin |-> "none", module |-> Module("", <<>>),
             tail |-> <<>>, remainder |-> <<>>, ran |-> {}, raised |-> ""]

\* source_resolution that gives up after the first source
source_resolution_first_only(entries, command, path, ran) ==
    IF entries = <<>> THEN [NoSource EXCEPT !.ran = ran]
    ELSE LET hit == resolve_in_source(Head(entries), command, path)
         IN  IF hit.handler.type # "None" \/ hit.raised # ""
             THEN [hit EXCEPT !.ran = ran \cup hit.ran]
             ELSE [NoSource EXCEPT !.ran = ran \cup hit.ran]

\* lines 258-288: the loop over the loaded sources; the first source with a
\* match ends it, and so does an exception.  ran collects the components
\* that were run.
RECURSIVE source_resolution(_, _, _, _)
source_resolution(entries, command, path, ran) ==
    IF entries = <<>> THEN [NoSource EXCEPT !.ran = ran]
    ELSE The({ IF hit.handler.type # "None" \/ hit.raised # ""
               THEN [hit EXCEPT !.ran = ran \cup hit.ran]
               ELSE source_resolution(Tail(entries), command, path, ran \cup hit.ran) :
               hit \in {resolve_in_source(Head(entries), command, path)} })

\* lines 292-296: the catch-all of the first root module that has one
RECURSIVE catchall_sweep(_, _)
catchall_sweep(entries, command) ==
    IF entries = <<>> THEN None
    ELSE LET method == find_catchall(Head(entries).module, command)
         IN  IF method.type # "None" THEN method
             ELSE catchall_sweep(Tail(entries), command)

\* line 300: ' '.join([prefix, '404']).strip()
error_name(prefix) == Strip(Join(<<prefix, <<"404">>>>, " "))

\* error_prefixes with "ANY" tried before the verb
error_prefixes_any_first(command) == <<<<"ANY">>, <<command>>, <<>>>>

\* line 299: the prefixes of the 404 identifiers, in the order they are tried
error_prefixes(command) == <<<<command>>, <<"ANY">>, <<>>>>

\* the parsed URL a saved Action is bound to (line 314)
original_url(path) == {<<"original_url", path>>}

\* the modules _find_action works with: loaded on the first call (line 252)
loaded_modules ==
    IF action_modules.loaded THEN action_modules.entries
    ELSE load_action_modules(action_sources)

Stages == <<"CacheCheck", "SourceResolution", "GlobalCatchallSweep", "ErrorLookup", "Miss">>

\* error_result with the error Action stored like a resolved one
error_result_saved(handler) ==
    [stage |-> "ErrorLookup", ret |-> Action(handler, "error", {}), save |-> TRUE,
     new |-> TRUE, raised |-> ""]

\* line 302: the error Action is returned, and not stored
error_result(handler) ==
    [stage |-> "ErrorLookup", ret |-> Action(handler, "error", {}), save |-> FALSE,
     new |-> TRUE, raised |-> ""]

\* lines 274, 288, 296: _save_action makes the Action, stores and returns it
saved_result(stage, handler, origin, path) ==
    [stage |-> stage, ret |-> Action(handler, origin, original_url(path)), save |-> TRUE,
     new |-> TRUE, raised |-> ""]

\* _find_action is left by an exception: nothing is returned or stored
raised_result(exception) ==
    [stage |-> "Raised", ret |-> None, save |-> FALSE, new |-> FALSE, raised |-> exception]

\* _find_action on the registry `registry` and the loaded modules `entries`,
\* src being what the loop over the sources gives: the stage that returns,
\* the value returned, whether an Action was made and whether _save_action
\* stored it, the stages entered, the components run
find_action_from(registry, entries, command, path, src) ==
    LET action_name == request_identifier(command, path)
        sweep == catchall_sweep(entries, command)
        sweepran == src.ran \cup (IF entries # <<>> THEN {"catchall"} ELSE {})
        names == SelectSeq([i \in 1..3 |-> error_name(error_prefixes(command)[i])],
                           LAMBDA n : n \in DOMAIN registry)
        where == [module |-> src.module, tail |-> src.tail, remainder |-> src.remainder]
        nowhere == [module |-> NoSource.module, tail |-> <<>>, remainder |-> <<>>]
    IN  IF action_name \in DOMAIN registry
        THEN [stage |-> "CacheCheck", ret |-> registry[action_name], save |-> FALSE,
              new |-> FALSE, raised |-> ""]
             @@ nowhere @@ [trace |-> SubSeq(Stages, 1, 1), ran |-> {}]
        ELSE IF src.raised # ""
        THEN raised_result(src.raised)
             @@ where @@ [trace |-> SubSeq(Stages, 1, 2), ran |-> src.ran]
        ELSE IF src.handler.type # "None"
        THEN saved_result("SourceResolution", src.handler, src.origin, path)
             @@ where @@ [trace |-> SubSeq(Stages, 1, 2), ran |-> src.ran]
        ELSE IF sweep.type # "None"
        THEN saved_result("GlobalCatchallSweep", sweep, "catchall", path)
             @@ nowhere @@ [trace |-> SubSeq(Stages, 1, 3), ran |-> sweepran]
        ELSE IF names # <<>>
        THEN error_result(registry[Head(names)])
             @@ nowhere @@ [trace |-> SubSeq(Stages, 1, 4), ran |-> sweepran]
        ELSE [stage |-> "Miss", ret |-> None, save |-> FALSE, new |-> FALSE, raised |-> ""]
             @@ nowhere @@ [trace |-> SubSeq(Stages, 1, 5), ran |-> sweepran]

find_action_in(registry, entries, command, path) ==
    The({ find_action_from(registry, entries, command, path, src) :
          src \in {source_resolution(entries, command, path, {})} })

\* _find_action of the running process: the first call loads the sources
\* (line 252), and an exception of the load leaves _find_action
find_action(command, path) ==
    IF ~action_modules.loaded /\ load_raised(action_sources) # ""
    THEN raised_result(load_raised(action_sources))
         @@ [module |-> NoSource.module, tail |-> <<>>, remainder |-> <<>>,
             trace |-> <<>>, ran |-> {}]
    ELSE find_action_in(actions, loaded_modules, command, path)

\* save_action that keeps only the newest resolved Action beside the registry
save_action_evicting(action_name, action) ==
    [k \in DOMAIN preset \cup {action_name} |->
        IF k = action_name THEN action ELSE preset[k]]

\* _save_action, line 314: the Action is stored under the request identifier
save_action(action_name, action) ==
    [k \in DOMAIN actions \cup {action_name} |->
        IF k = action_name THEN action ELSE actions[k]]

(***************************************************************************)
(* Requests and configurations                                             *)
(***************************************************************************)

\* request targets: "/a/b", "/a/b/c", "/m", "/_a", "404" and "/a/b?q"
Paths == { <<"/", "a", "/", "b">>,
           <<"/", "a", "/", "b", "/", "c">>,
           <<"/", "m">>,
           <<"/", "_", "a">>,
           <<"404">>,
           <<"/", "a", "/", "b", "?", "q">> }

\* the attribute sets of the root module of s1 that Init chooses from
S1Attrs ==
    SUBSET {Name(<<"get", "a", "b">>), Name(<<"any", "a", "b">>), Name(<<"a", "b">>)}
    \cup { {Name(<<"a">>)}, {Name(<<"a", "b", "c">>)},
           {Name(<<"get">>), Name(<<"any">>)}, {Name(<<"get", "404">>)} }

\* the attributes of the other modules
S1mAttrs == {Name(<<"get">>), Name(<<"post", "x">>)}
S2Attrs == {Name(<<"get", "a", "b">>), Name(<<"post">>)}

\* action_sources: the configured lists ("nx" cannot be found)
SourceLists == { <<"nx", "s1">>, <<"s1", "s2">>, <<"s2", "s1">> }

\* handlers the user registers
UserFunction(name) == Function(Module("user", <<>>), <<name>>)

\* the `actions` mapping handed to serve(): identifier -> function
Errors(ids) == [k \in ids |-> UserFunction(k[1])]

\* the pre-registered actions Init chooses from
Registries ==
    { Errors({}),
      Errors({<<"404">>}),
      add_action(Errors({<<"GET", " ", "404">>, <<"ANY", " ", "404">>, <<"404">>}),
                 "get", <<"/", "a", "/", "b">>, UserFunction("h"), "direct") }

\* ActionRequestHandlerMeta.__init__, line 46, and enable_fallback
DefaultFallback == FALSE
enable_fallback(status) == status

\* no request has been served, and no worker is running
NoReply == [op |-> "none", raised |-> "", sent |-> "none", invoked |-> None, kwargs |-> {},
            body |-> FALSE]

NoWorkers == <<>>

NoCall == [command |-> "", path |-> <<>>, stage |-> "none", ret |-> None,
           save |-> FALSE, new |-> FALSE, module |-> NoSource.module, tail |-> <<>>,
           remainder |-> <<>>, trace |-> <<>>, ran |-> {}, raised |-> "",
           hit |-> FALSE, known |-> FALSE, changed |-> FALSE, again |-> FALSE]

Init ==
    /\ action_sources \in SourceLists
    /\ fallback \in {DefaultFallback, enable_fallback(TRUE)}
    /\ preset \in Registries
    /\ actions = preset
    /\ action_modules = [loaded |-> FALSE, entries |-> <<>>]
    /\ \E a \in S1Attrs :
         modattrs = [m \in Modules |->
                       IF m = Module("s1", <<>>) THEN a
                       ELSE IF m = Module("s1", <<<<"m">>>>) THEN S1mAttrs
                       ELSE IF m = Module("s2", <<>>) THEN S2Attrs
                       ELSE {}]
    /\ resolved = <<>>
    /\ last = NoCall
    /\ reply = NoReply
    /\ workers = NoWorkers

\* the number of identifiers the runs resolve and store
MaxSaved == 2

Saved == Cardinality(DOMAIN actions) - Cardinality(DOMAIN preset)

\* one call of _find_action for a request (command, path); `resolved` keeps,
\* for each identifier, the Action its first successful resolution returned,
\* and `last` describes the call: hit and known say whether the identifier
\* was in _actions and in `resolved` when the call began, changed whether the
\* call changed _actions, again whether the call before it was for the same
\* request and ended in ErrorLookup or Miss.  The result of _find_action is
\* bound once, as the return value of the call is.
find_action_call(command, path, r) ==
    LET action_name == request_identifier(command, path)
        stored == IF r.save THEN save_action(action_name, r.ret) ELSE actions
    IN  /\ r.save => Saved < MaxSaved
        /\ action_modules' = [loaded |-> TRUE, entries |-> loaded_modules]
        /\ actions' = stored
        /\ resolved' = IF r.save /\ action_name \notin DOMAIN resolved
                       THEN (action_name :> r.ret) @@ resolved
                       ELSE resolved
        /\ last' = [command |-> command, path |-> path,
                    hit |-> action_name \in DOMAIN actions,
                    known |-> action_name \in DOMAIN resolved,
                    changed |-> stored # actions,
                    again |-> /\ last.command = command /\ last.path = path
                              /\ last.stage \in {"ErrorLookup", "Miss"}] @@ r
        /\ UNCHANGED <<action_sources, fallback, modattrs, preset>>

FindAction(command, path) ==
    \E r \in {find_action(command, path)} :
       /\ find_action_call(command, path, r)
       /\ UNCHANGED <<reply, workers>>

Next == \E command \in Commands, path \in Paths : FindAction(command, path)

Spec == Init /\ [][Next]_vars

(***************************************************************************)
(* Serving a request: do_GET, do_POST and handle_expect_100                *)
(***************************************************************************)

\* urlparse(path).query: what follows the first "?"
RECURSIVE urlparse_query(_)
urlparse_query(path) ==
    IF path = <<>> THEN <<>>
    ELSE IF Head(path) = "?" THEN Tail(path)
    ELSE urlparse_query(Tail(path))

\* the fields that cgi.FieldStorage finds in a request body
Fields == <<"fields">>

\* lines 219-230: the parameters that _dispatch builds; form and files tell
\* whether the body has form fields and uploaded files
parameters(path, form, files) ==
    {<<"url", path>>}
    \cup (IF urlparse_query(path) # <<>> THEN {<<"query", urlparse_query(path)>>} ELSE {})
    \cup (IF form THEN {<<"form", Fields>>} ELSE {})
    \cup (IF files THEN {<<"files", Fields>>} ELSE {})

\* Action.__call__, lines 31-34: the bound keyword arguments, updated with
\* those of the call, go to the handler; a handler that is an Action itself
\* (an Action of _actions that the error lookup wrapped) does the same again
RECURSIVE call(_, _)
call(action, kwargs) ==
    LET final_kwargs == {kv \in action.kwargs : \A p \in kwargs : p[1] # kv[1]} \cup kwargs
    IN  IF action.handler.type = "Action" THEN call(action.handler, final_kwargs)
        ELSE [handler |-> action.handler, kwargs |-> final_kwargs]

\* _dispatch, lines 212-235, after _find_action returned r: an entry of
\* _actions that is a plain function has no origin (line 215)
dispatch(r, path, form, files) ==
    IF r.raised # "" THEN [NoReply EXCEPT !.op = "dispatch", !.raised = r.raised]
    ELSE IF r.ret.type = "function"
    THEN [NoReply EXCEPT !.op = "dispatch", !.raised = "AttributeError"]
    ELSE IF r.ret.type = "Action"
    THEN [NoReply EXCEPT !.op = "dispatch",
                         !.invoked = call(r.ret, parameters(path, form, files)).handler,
                         !.kwargs = call(r.ret, parameters(path, form, files)).kwargs]
    ELSE [NoReply EXCEPT !.op = "dispatch", !.sent = "404"]

\* the values that `(action, _) = value` can unpack: _find_action returns
\* an entry of _actions (an Action or a function) or None, never a pair
iterable(value) == value.type \notin {"Action", "function", "None"}

\* handle_expect_100, lines 204-210, after _find_action returned r: line 205
\* unpacks what _find_action returned into two names
handle_expect_100(r) ==
    IF r.raised # "" THEN [NoReply EXCEPT !.op = "expect_100", !.raised = r.raised]
    ELSE IF ~iterable(r.ret) THEN [NoReply EXCEPT !.op = "expect_100", !.raised = "TypeError"]
    ELSE IF r.ret[1].origin = "error" THEN [NoReply EXCEPT !.op = "expect_100", !.sent = "404"]
    ELSE [NoReply EXCEPT !.op = "expect_100", !.sent = "100"]

\* do_GET and do_POST: the body is read by do_POST (line 111) before
\* _dispatch is called; a GET has no form and no files
Dispatch(command, path, form, files) ==
    /\ command = "GET" => ~form /\ ~files
    /\ \E r \in {find_action(command, path)} :
          /\ find_action_call(command, path, r)
          /\ reply' = [dispatch(r, path, form, files) EXCEPT !.body = (command = "POST")]
    /\ UNCHANGED workers

\* a request with an "Expect: 100-continue" header: parse_request calls
\* handle_expect_100 before any do_ method runs
HandleExpect100(command, path) ==
    /\ \E r \in {find_action(command, path)} :
          /\ find_action_call(command, path, r)
          /\ reply' = handle_expect_100(r)
    /\ UNCHANGED workers

\* request targets: "/a/b", "/a/b?q", "/m/x", "/bad/x" and "/bad.x"
ServePaths == { <<"/", "a", "/", "b">>,
                <<"/", "a", "/", "b", "?", "q">>,
                <<"/", "m", "/", "x">>,
                <<"/", "bad", "/", "x">>,
                <<"/", "bad", ".", "x">> }

\* action_sources of the served configurations
ServeSourceLists == { <<"nx", "s1">>, <<"px", "s1">>, <<"p1", "s1">>, <<"s1", "p1">>,
                      <<"s1", "bad", "s2">>, <<"d1", "s2">> }

\* the attribute sets of the root module of s1
ServeS1Attrs == { {Name(<<"a">>)}, {Name(<<"get", "a", "b">>), Name(<<"bad", "x">>)} }

\* the pre-registered actions
ServeRegistries == { Errors({}), Errors({<<"404">>}) }

ServeInit ==
    /\ action_sources \in ServeSourceLists
    /\ fallback \in {DefaultFallback, enable_fallback(TRUE)}
    /\ preset \in ServeRegistries
    /\ actions = preset
    /\ action_modules = [loaded |-> FALSE, entries |-> <<>>]
    /\ \E a \in ServeS1Attrs :
         modattrs = [m \in Modules |->
                       IF m = Module("s1", <<>>) THEN a
                       ELSE IF m = Module("s1", <<<<"m">>>>) THEN S1mAttrs
                       ELSE IF m = Module("s2", <<>>) THEN S2Attrs
                       ELSE {}]
    /\ resolved = <<>>
    /\ last = NoCall
    /\ reply = NoReply
    /\ workers = NoWorkers

ServeNext ==
    \/ \E command \in Commands, path \in ServePaths, form \in BOOLEAN, files \in BOOLEAN :
          Dispatch(command, path, form, files)
    \/ \E command \in Commands, path \in ServePaths : HandleExpect100(command, path)

ServeSpec == ServeInit /\ [][ServeNext]_vars

(***************************************************************************)
(* Workers: requests handled by the threads of a threading server.  Each   *)
(* worker runs _find_action for one request; a step is one statement (or   *)
(* one iteration of a loop) of _load_action_modules and _find_action, and  *)
(* the steps of the workers interleave.  The dict that _action_modules     *)
(* names is known by the worker that made it (line 382).                   *)
(***************************************************************************)

WorkerNames == {"w1", "w2"}

Idle == [pc |-> "idle", command |-> "", path |-> <<>>, loader |-> FALSE, item |-> 1,
         replaced |-> <<>>, dict |-> "none", view |-> <<>>, pos |-> 1, stale |-> FALSE,
         handler |-> None, origin |-> "none", ret |-> None, raised |-> ""]

\* the requests of the workers
WorkerRequests == { <<"GET", <<"/", "a", "/", "b">>>>,
                    <<"POST", <<"/", "a", "/", "b">>>>,
                    <<"GET", <<"/", "m">>>> }

\* the attributes of the root module of s1
WorkerS1Attrs == {Name(<<"get", "a", "b">>)}

WorkersInit ==
    /\ action_sources \in SourceLists
    /\ fallback = DefaultFallback
    /\ preset \in ServeRegistries
    /\ actions = preset
    /\ action_modules = [loaded |-> FALSE, entries |-> <<>>, dict |-> "none"]
    /\ modattrs = [m \in Modules |->
                     IF m = Module("s1", <<>>) THEN WorkerS1Attrs
                     ELSE IF m = Module("s1", <<<<"m">>>>) THEN S1mAttrs
                     ELSE IF m = Module("s2", <<>>) THEN S2Attrs
                     ELSE {}]
    /\ resolved = <<>>
    /\ last = NoCall
    /\ reply = NoReply
    /\ workers = [w \in WorkerNames |-> Idle]

\* what a step leaves alone besides the worker, the catalog and the cache
WorkerFrame == UNCHANGED <<action_sources, fallback, modattrs, preset, resolved, last, reply>>

\* worker w goes on with the record `next`
Continue(w, next) == workers' = [workers EXCEPT ![w] = next]

\* _find_action returns `ret` or is left by the exception `raised`
Finish(w, ret, raised) ==
    Continue(w, [workers[w] EXCEPT !.pc = "done", !.ret = ret, !.raised = raised])

\* a request reaches worker w, which calls _find_action (line 213)
Accept(w, command, path) ==
    /\ workers[w].pc = "idle"
    /\ Continue(w, [workers[w] EXCEPT !.pc = "load_check", !.command = command,
                                       !.path = path])
    /\ UNCHANGED <<action_modules, actions>>
    /\ WorkerFrame

\* line 379: if cls._action_modules is not None: return
LoadCheck(w) ==
    /\ workers[w].pc = "load_check"
    /\ Continue(w, [workers[w] EXCEPT !.pc = IF action_modules.loaded THEN "cache_check"
                                             ELSE "load_reset"])
    /\ UNCHANGED <<action_modules, actions>>
    /\ WorkerFrame

\* line 382: cls._action_modules = {}.  A worker that iterates over the dict
\* this one replaces keeps that dict, which from now on nobody changes: its
\* iteration fails later if the dict has grown since the iteration began.
\* `replaced` keeps what the dict held that this assignment replaced.
LoadReset(w) ==
    /\ workers[w].pc = "load_reset"
    /\ action_modules' = [loaded |-> TRUE, entries |-> <<>>, dict |-> w]
    /\ workers' = [v \in WorkerNames |->
                     IF v = w THEN [workers[w] EXCEPT !.pc = "load_item", !.loader = TRUE,
                                                      !.replaced = action_modules.entries]
                     ELSE IF workers[v].pc \in {"sources", "sweep"}
                             /\ workers[v].dict = action_modules.dict
                     THEN [workers[v] EXCEPT
                             !.stale = Len(action_modules.entries) # Len(workers[v].view)]
                     ELSE workers[v]]
    /\ UNCHANGED actions
    /\ WorkerFrame

\* lines 383-409: one iteration of the loop over action_sources; the entry
\* goes into the dict that cls._action_modules names at this moment
LoadItem(w) ==
    /\ workers[w].pc = "load_item"
    /\ IF workers[w].item > Len(action_sources)
       THEN /\ Continue(w, [workers[w] EXCEPT !.pc = "cache_check"])
            /\ UNCHANGED action_modules
       ELSE \E out \in {load_source(action_sources[workers[w].item])} :
              IF out.raised # ""
              THEN Finish(w, None, out.raised) /\ UNCHANGED action_modules
              ELSE /\ Continue(w, [workers[w] EXCEPT !.item = @ + 1])
                   /\ action_modules' =
                         IF out.loaded
                         THEN [action_modules EXCEPT !.entries = catalog_put(@, out.entry)]
                         ELSE action_modules
    /\ UNCHANGED actions
    /\ WorkerFrame

\* lines 254-256: the cache check
CacheCheck(w) ==
    /\ workers[w].pc = "cache_check"
    /\ LET action_name == request_identifier(workers[w].command, workers[w].path)
       IN  IF action_name \in DOMAIN actions
           THEN Finish(w, actions[action_name], "")
           ELSE Continue(w, [workers[w] EXCEPT !.pc = "sources_start"])
    /\ UNCHANGED <<action_modules, actions>>
    /\ WorkerFrame

\* a for statement begins to iterate over the dict of this moment
iterate(w, pc) ==
    [workers[w] EXCEPT !.pc = pc, !.dict = action_modules.dict,
                       !.view = action_modules.entries, !.pos = 1, !.stale = FALSE]

\* the dict iterator finds that its dict has changed size
dict_changed(w) ==
    \/ workers[w].stale
    \/ /\ workers[w].dict = action_modules.dict
       /\ Len(action_modules.entries) # Len(workers[w].view)

\* line 258: for identifier in self._action_modules
SourcesStart(w) ==
    /\ workers[w].pc = "sources_start"
    /\ Continue(w, iterate(w, "sources"))
    /\ UNCHANGED <<action_modules, actions>>
    /\ WorkerFrame

\* lines 258-288: one iteration of the loop over the sources.  _find_module
\* looks the identifier up in the dict that _action_modules names now
\* (line 325), which may be another one than the dict iterated over.
SourcesNext(w) ==
    /\ workers[w].pc = "sources"
    /\ IF dict_changed(w) THEN Finish(w, None, "RuntimeError")
       ELSE IF workers[w].pos > Len(workers[w].view)
       THEN Continue(w, [workers[w] EXCEPT !.pc = "sweep_start"])
       ELSE LET identifier == workers[w].view[workers[w].pos].identifier
                found == SelectSeq(action_modules.entries,
                                   LAMBDA e : e.identifier = identifier)
            IN  IF found = <<>> THEN Finish(w, None, "KeyError")
                ELSE \E hit \in {resolve_in_source(Head(found), workers[w].command,
                                                    workers[w].path)} :
                       IF hit.raised # "" THEN Finish(w, None, hit.raised)
                       ELSE IF hit.handler.type # "None"
                       THEN Continue(w, [workers[w] EXCEPT !.pc = "save",
                                                           !.handler = hit.handler,
                                                           !.origin = hit.origin])
                       ELSE Continue(w, [workers[w] EXCEPT !.pos = @ + 1])
    /\ UNCHANGED <<action_modules, actions>>
    /\ WorkerFrame

\* line 292: for _, module in self._action_modules.items()
SweepStart(w) ==
    /\ workers[w].pc = "sweep_start"
    /\ Continue(w, iterate(w, "sweep"))
    /\ UNCHANGED <<action_modules, actions>>
    /\ WorkerFrame

\* lines 292-296: one iteration of the sweep over the root modules
SweepNext(w) ==
    /\ workers[w].pc = "sweep"
    /\ IF dict_changed(w) THEN Finish(w, None, "RuntimeError")
       ELSE IF workers[w].pos > Len(workers[w].view)
       THEN Continue(w, [workers[w] EXCEPT !.pc = "error_lookup"])
       ELSE \E method \in {find_catchall(workers[w].view[workers[w].pos].module,
                                          workers[w].command)} :
              IF method.type # "None"
              THEN Continue(w, [workers[w] EXCEPT !.pc = "save", !.handler = method,
                                                  !.origin = "catchall"])
              ELSE Continue(w, [workers[w] EXCEPT !.pos = @ + 1])
    /\ UNCHANGED <<action_modules, actions>>
    /\ WorkerFrame

\* lines 299-305: the error lookup, and None when it finds nothing
ErrorLookup(w) ==
    /\ workers[w].pc = "error_lookup"
    /\ LET names == SelectSeq([i \in 1..3 |->
                                 error_name(error_prefixes(workers[w].command)[i])],
                              LAMBDA n : n \in DOMAIN actions)
       IN  IF names # <<>> THEN Finish(w, Action(actions[Head(names)], "error", {}), "")
           ELSE Finish(w, None, "")
    /\ UNCHANGED <<action_modules, actions>>
    /\ WorkerFrame

\* _save_action, lines 314-315: the Action is stored and returned
SaveAction(w) ==
    /\ workers[w].pc = "save"
    /\ \E action \in {Action(workers[w].handler, workers[w].origin,
                               original_url(workers[w].path))} :
          /\ actions' = save_action(request_identifier(workers[w].command, workers[w].path),
                                    action)
          /\ Finish(w, action, "")
    /\ UNCHANGED action_modules
    /\ WorkerFrame

WorkersNext ==
    \E w \in WorkerNames :
       \/ \E request \in WorkerRequests : Accept(w, request[1], request[2])
       \/ LoadCheck(w)
       \/ LoadReset(w)
       \/ LoadItem(w)
       \/ CacheCheck(w)
       \/ SourcesStart(w)
       \/ SourcesNext(w)
       \/ SweepStart(w)
       \/ SweepNext(w)
       \/ ErrorLookup(w)
       \/ SaveAction(w)

WorkersSpec == WorkersInit /\ [][WorkersNext]_vars

(***************************************************************************)
(* Properties                                                              *)
(***************************************************************************)

Called == last.stage # "none"

\* the identifier of the last request, and the loaded sources
LastKey == request_identifier(last.command, last.path)
Loaded == action_modules.entries

\* C1: an Action that a resolution found in SourceResolution or in
\* GlobalCatchallSweep stays in _actions unchanged, and every later
\* resolution of its identifier returns that very Action from the cache check:
\* no Action is made, and descent, function matching and catch-all matching
\* are not run.
C1_CachedActionIsReturned ==
    /\ \A k \in DOMAIN resolved : k \in DOMAIN actions /\ actions[k] = resolved[k]
    /\ (Called /\ last.known) =>
          /\ last.stage = "CacheCheck"
          /\ last.ret = resolved[LastKey]
          /\ ~last.new
          /\ last.ran = {}

\* a cache hit on an Action that another request target with the same path
\* stored, with a second identifier resolved as well
C1_Witness ==
    /\ Called /\ last.known /\ last.stage = "CacheCheck"
    /\ Cardinality(DOMAIN resolved) = 2
    /\ last.ret.type = "Action"
    /\ last.ret.kwargs # original_url(last.path)

\* the handler and the origin of a resolution's result
Outcome(ret) == IF ret.type = "Action" THEN <<ret.handler, ret.origin>> ELSE <<ret, "none">>

\* the result of the same request in a fresh process with this configuration
Fresh == find_action_in(preset, load_action_modules(action_sources),
                        last.command, last.path)

\* C2: a resolution returns the handler and the origin that the same request
\* gets when it is the first one of a fresh process with the same
\* configuration, whatever was resolved before it.
C2_SameAsFresh == Called => Outcome(last.ret) = Outcome(Fresh.ret)

\* the three names of a tail in the order of their priority: the name with
\* the lowercased verb before it, with "any" before it, and the bare name
Candidates(command, tail) ==
    LET f == Join(tail, "_")
    IN  << <<Lower(command), "_">> \o f, <<"any", "_">> \o f, f >>

\* the handle has one of the names that line 272 builds for the tail
HasCandidate(module, command, tail) ==
    \E i \in 1..3 : try_function(prefixes(command)[i], Join(tail, "_")) \in modattrs[module]

\* the names of the catch-all functions, in the order of their priority
CatchallNames(command) == << <<Lower(command)>>, <<"any">> >>

HasCatchall(module, command) ==
    \E i \in 1..2 : CatchallNames(command)[i] \in modattrs[module]

\* the first name of the sequence `names` that the module defines
FirstDefined(module, names) ==
    names[CHOOSE i \in 1..Len(names) :
            /\ names[i] \in modattrs[module]
            /\ \A j \in 1..(i - 1) : names[j] \notin modattrs[module]]

Prefixes(parts) == {SubSeq(parts, 1, n) : n \in 1..Len(parts)}

\* the handle and the unconsumed segments of the last request in a source
Descended(source) == find_module(Module(source, <<>>), split_parts(last.path))

\* the last resolution ended with a function match
FunctionMatched == last.stage = "SourceResolution" /\ last.tail # <<>>

S1Root == Module("s1", <<>>)

\* C3: a function match returns, of the names verb_tail, any_tail and tail,
\* the first one that the handle defines; with get_a_b and any_a_b both
\* defined in the first source, GET /a/b resolves to get_a_b.
C3_PrefixPriority ==
    /\ FunctionMatched =>
          /\ \E i \in 1..3 : Candidates(last.command, last.tail)[i] \in modattrs[last.module]
          /\ last.ret.handler =
                Function(last.module,
                         FirstDefined(last.module, Candidates(last.command, last.tail)))
    /\ ( /\ Called /\ ~last.hit
         /\ last.command = "GET" /\ split_parts(last.path) = <<<<"a">>, <<"b">>>>
         /\ Loaded[1].identifier = "s1"
         /\ {<<"get", "_", "a", "_", "b">>, <<"any", "_", "a", "_", "b">>}
               \subseteq modattrs[S1Root] )
       => Outcome(last.ret) = <<Function(S1Root, <<"get", "_", "a", "_", "b">>), "direct">>

\* GET /a/b resolved to get_a_b of a module that defines any_a_b and a_b too
C3_Witness ==
    /\ FunctionMatched /\ last.command = "GET"
    /\ last.ret.handler.name = <<"get", "_", "a", "_", "b">>
    /\ {<<"any", "_", "a", "_", "b">>, <<"a", "_", "b">>} \subseteq modattrs[last.module]

\* C4: with fallback enabled, a function match uses the longest non-empty
\* prefix of the unconsumed segments that has a candidate on the handle, the
\* segments after it are the remainder, and the origin is direct exactly when
\* the remainder is empty; a source whose handle has a candidate for some
\* prefix does not end without a match.
C4_FallbackLadder ==
    fallback =>
      /\ FunctionMatched =>
            /\ last.tail \o last.remainder = Descended(last.module[1]).parts
            /\ HasCandidate(last.module, last.command, last.tail)
            /\ \A t \in Prefixes(last.tail \o last.remainder) :
                  Len(t) > Len(last.tail) => ~HasCandidate(last.module, last.command, t)
            /\ last.ret.origin = IF last.remainder = <<>> THEN "direct" ELSE "fallback"
      /\ (Called /\ ~last.hit) =>
            LET d == Descended(Loaded[1].identifier)
            IN  (\E t \in Prefixes(d.parts) : HasCandidate(d.module, last.command, t))
                   => FunctionMatched /\ last.module = d.module

\* /a/b/c resolved to a, two segments moved to the remainder
C4_Witness ==
    /\ fallback /\ FunctionMatched
    /\ last.tail = <<<<"a">>>> /\ last.remainder = <<<<"b">>, <<"c">>>>
    /\ last.ret.origin = "fallback"

\* C5: with fallback disabled, a function match uses all the unconsumed
\* segments, no Action of origin fallback is returned or stored, and with `a`
\* the only function of the only source and nothing registered GET /a/b is a
\* Miss.
C5_NoFallbackWhenDisabled ==
    ~fallback =>
      /\ FunctionMatched =>
            /\ last.remainder = <<>>
            /\ last.tail = Descended(last.module[1]).parts
      /\ (Called /\ last.ret.type = "Action") => last.ret.origin # "fallback"
      /\ \A k \in DOMAIN actions :
            actions[k].type = "Action" => actions[k].origin # "fallback"
      /\ ( /\ Called
           /\ last.command = "GET" /\ split_parts(last.path) = <<<<"a">>, <<"b">>>>
           /\ action_sources = <<"nx", "s1">>
           /\ modattrs[S1Root] = {<<"a">>}
           /\ DOMAIN preset = {} )
         => last.stage = "Miss" /\ last.ret = None

\* GET /a/b is a Miss although the only source defines a
C5_Witness ==
    /\ ~fallback /\ last.stage = "Miss"
    /\ last.command = "GET" /\ split_parts(last.path) = <<<<"a">>, <<"b">>>>
    /\ modattrs[S1Root] = {<<"a">>}

\* a source matches the last request: a candidate for the unconsumed segments
\* (or, with fallback, for a prefix of them), or a catch-all when none is left
SourceMatches(entry) ==
    LET d == find_module(entry.module, split_parts(last.path))
    IN  IF d.parts = <<>> THEN HasCatchall(d.module, last.command)
        ELSE \E t \in (IF fallback THEN Prefixes(d.parts) ELSE {d.parts}) :
                HasCandidate(d.module, last.command, t)

AnySourceMatches == \E i \in 1..Len(Loaded) : SourceMatches(Loaded[i])

AnyCatchall == \E i \in 1..Len(Loaded) : HasCatchall(Loaded[i].module, last.command)

ErrorIds == << <<last.command, " ", "404">>, <<"ANY", " ", "404">>, <<"404">> >>

AnyErrorId == \E i \in 1..3 : ErrorIds[i] \in DOMAIN actions

\* C6: the stages are entered in the order CacheCheck, SourceResolution,
\* GlobalCatchallSweep, ErrorLookup, Miss, and a resolution ends in the first
\* stage that produces something: the sweep (origin catchall) only when no
\* source matched, the error lookup (origin error) only when no root module
\* has a catch-all either, Miss only when no error identifier is registered.
C6_StageOrder ==
    Called =>
      /\ last.trace = SubSeq(Stages, 1, Len(last.trace))
      /\ last.trace # <<>> /\ last.trace[Len(last.trace)] = last.stage
      /\ last.stage = "CacheCheck" <=> last.hit
      /\ last.stage = "SourceResolution" <=> ~last.hit /\ AnySourceMatches
      /\ last.stage = "GlobalCatchallSweep" <=>
            ~last.hit /\ ~AnySourceMatches /\ AnyCatchall
      /\ last.stage = "ErrorLookup" <=>
            ~last.hit /\ ~AnySourceMatches /\ ~AnyCatchall /\ AnyErrorId
      /\ last.stage = "Miss" <=>
            ~last.hit /\ ~AnySourceMatches /\ ~AnyCatchall /\ ~AnyErrorId
      /\ last.stage = "SourceResolution" => last.ret.origin \in {"direct", "fallback"}
      /\ last.stage = "GlobalCatchallSweep" => last.ret.origin = "catchall"
      /\ last.stage = "ErrorLookup" => last.ret.origin = "error"
      /\ last.stage = "Miss" => last.ret = None
      /\ (last.ret.type = "Action" /\ last.ret.origin = "catchall") =>
            ~AnySourceMatches /\ AnyCatchall
      /\ (last.ret.type = "Action" /\ last.ret.origin = "error") =>
            ~AnySourceMatches /\ ~AnyCatchall /\ last.stage = "ErrorLookup"

\* the error lookup answers a request that no source of two matched
C6_Witness ==
    /\ last.stage = "ErrorLookup" /\ Len(Loaded) = 2
    /\ last.trace = SubSeq(Stages, 1, 4)

\* C7: the sources are loaded in the order of action_sources, and a
\* resolution that ends in SourceResolution returns and stores the match of
\* the first loaded source that matches.
C7_FirstSourceWins ==
    Called =>
      /\ [i \in 1..Len(Loaded) |-> Loaded[i].identifier]
            = SelectSeq(action_sources, LAMBDA n : find_spec_top(n) = "spec")
      /\ last.stage = "SourceResolution" =>
            /\ \E i \in 1..Len(Loaded) :
                  /\ Loaded[i].identifier = last.module[1]
                  /\ SourceMatches(Loaded[i])
                  /\ \A j \in 1..(i - 1) : ~SourceMatches(Loaded[j])
            /\ last.ret.handler.module = last.module
            /\ actions[LastKey] = last.ret

\* the first source answers by fallback although the second one has a
\* function for the whole path
C7_Witness ==
    /\ last.stage = "SourceResolution" /\ Len(Loaded) = 2
    /\ last.module = Loaded[1].module
    /\ last.ret.origin = "fallback"
    /\ HasCandidate(Loaded[2].module, last.command, split_parts(last.path))

\* C8: the error lookup returns an Action of origin error whose handler is
\* the entry of the first registered identifier among "<command> 404",
\* "ANY 404" and "404".
C8_ErrorPrecedence ==
    last.stage = "ErrorLookup" =>
      \E i \in 1..3 :
         /\ ErrorIds[i] \in DOMAIN actions
         /\ \A j \in 1..(i - 1) : ErrorIds[j] \notin DOMAIN actions
         /\ last.ret.handler = actions[ErrorIds[i]]
         /\ last.ret.origin = "error"

\* a GET miss with "GET 404" and "ANY 404" registered gets the "GET 404" handler
C8_Witness ==
    /\ last.stage = "ErrorLookup" /\ last.command = "GET"
    /\ {<<"GET", " ", "404">>, <<"ANY", " ", "404">>} \subseteq DOMAIN preset
    /\ last.ret.handler = preset[<<"GET", " ", "404">>]

\* C9: a catch-all hit is the function named by the lowercased verb if the
\* handle has one and the function `any` otherwise; with no segment left
\* after descent it is looked up on the module that the segments name and has
\* origin direct, in the global sweep on the root module of the first loaded
\* source that has one and has origin catchall.
C9_Catchall ==
    /\ (last.stage = "SourceResolution" /\ last.tail = <<>>) =>
          /\ last.module = Module(last.module[1], split_parts(last.path))
          /\ HasCatchall(last.module, last.command)
          /\ last.ret.handler =
                Function(last.module, FirstDefined(last.module, CatchallNames(last.command)))
          /\ last.ret.origin = "direct"
    /\ last.stage = "GlobalCatchallSweep" =>
          \E i \in 1..Len(Loaded) :
             LET root == Module(Loaded[i].identifier, <<>>)
             IN  /\ HasCatchall(root, last.command)
                 /\ \A j \in 1..(i - 1) :
                       ~HasCatchall(Module(Loaded[j].identifier, <<>>), last.command)
                 /\ last.ret.handler =
                       Function(root, FirstDefined(root, CatchallNames(last.command)))
                 /\ last.ret.origin = "catchall"

\* the sweep returns `get` of a root module that defines `any` as well
C9_Witness ==
    /\ last.stage = "GlobalCatchallSweep"
    /\ last.ret.handler.name = <<"get">>
    /\ <<"any">> \in modattrs[last.ret.handler.module]

\* GET /m resolved to the catch-all of the sub-module m, origin direct
C9_DeepestHandle ==
    /\ last.stage = "SourceResolution" /\ last.tail = <<>>
    /\ last.module = Module("s1", <<<<"m">>>>)

\* C10: a resolution that ends in ErrorLookup or in Miss does not change
\* _actions and leaves the request's identifier out of it; the error Action
\* is a new object that is no entry of _actions; and the same request
\* resolved next ends in ErrorLookup or Miss again after all the stages.
C10_ErrorAndMissNotCached ==
    /\ last.stage \in {"ErrorLookup", "Miss"} =>
          /\ ~last.changed
          /\ LastKey \notin DOMAIN actions
          /\ Len(last.trace) >= 4
          /\ last.stage = "ErrorLookup" =>
                last.new /\ \A k \in DOMAIN actions : actions[k] # last.ret
    /\ last.again =>
          /\ last.stage \in {"ErrorLookup", "Miss"}
          /\ "CacheCheck" # last.stage /\ ~last.hit

\* the same request ended in the error lookup twice in a row
C10_Witness == last.again /\ last.stage = "ErrorLookup" /\ last.new

(***************************************************************************)
(* Properties of the served requests                                       *)
(***************************************************************************)

Dispatched == reply.op = "dispatch"

\* the sources of action_sources that can be loaded, each taken alone
Loadable ==
    LET items == SelectSeq(action_sources, LAMBDA item : load_source(item).loaded)
    IN  [i \in 1..Len(items) |-> load_source(items[i]).entry]

\* _load_action_modules was left by an exception in the last call
LoadRaised == last.stage = "Raised" /\ last.trace = <<>>

\* C11: a request with Expect: 100-continue is resolved with its verb and
\* path before its body is read; if the resolution gives an Action of origin
\* error the reply is 404 at once, otherwise the request is told to continue.
C11_PreflightShortCircuit ==
    reply.op = "expect_100" =>
      /\ ~reply.body
      /\ reply.raised = ""
      /\ reply.sent = IF last.ret.type = "Action" /\ last.ret.origin = "error"
                      THEN "404" ELSE "100"

\* no handler exists for the last request: its identifier is not in
\* _actions, no error identifier is registered, and no source that can be
\* loaded has a function for it (a path-origin source has no function at all)
NoHandlerAnywhere ==
    /\ Called /\ ~last.hit /\ ~AnyErrorId
    /\ \A i \in 1..Len(Loadable) :
          IF Loadable[i].origin = "path" THEN modattrs[Loadable[i].module] = {}
          ELSE ~SourceMatches(Loadable[i]) /\ ~HasCatchall(Loadable[i].module, last.command)

\* C12: whatever the verb, the path and the sources are, a resolution that
\* finds no handler returns None without raising, and _dispatch then sends
\* 404 and calls no handler.
C12_MissIsNotFound ==
    (Dispatched /\ NoHandlerAnywhere) =>
      /\ last.stage = "Miss" /\ last.ret = None /\ last.raised = ""
      /\ reply.raised = "" /\ reply.sent = "404" /\ reply.invoked = None

\* C13: a source that cannot be loaded is left out without an error: the
\* load raises nothing to the caller of the resolution, and after it the
\* catalog holds every source of action_sources that can be loaded, in the
\* order of action_sources.
C13_FailedSourceDropped ==
    action_modules.loaded =>
      /\ ~LoadRaised
      /\ action_modules.entries = Loadable

\* C14: when several workers make their first resolution concurrently, the
\* sources are loaded once, no worker replaces a dict that holds loaded
\* sources, and every worker iterates over all the sources that load.
C14_LoadOnce ==
    /\ Cardinality({w \in WorkerNames : workers[w].loader}) <= 1
    /\ \A w \in WorkerNames :
          /\ workers[w].replaced = <<>>
          /\ workers[w].pc \in {"sources", "sweep"}
                => workers[w].view = load_action_modules(action_sources)

\* both workers have the request of worker w
SameRequest(w) ==
    \A v \in WorkerNames :
       /\ workers[v].pc # "idle"
       /\ workers[v].command = workers[w].command
       /\ workers[v].path = workers[w].path

\* what the request of worker w gets as the only request of a process
Sequential(w) ==
    find_action_in(preset, load_action_modules(action_sources),
                   workers[w].command, workers[w].path)

\* C15: two workers that resolve the same identifier for the first time at
\* the same time both get the handler and the origin of a sequential
\* resolution, and the entry of the identifier in _actions has that handler
\* and origin whichever of them stored it last.
C15_SameResultUnderRace ==
    \A w \in WorkerNames :
       (SameRequest(w) /\ workers[w].pc = "done") =>
          LET action_name == request_identifier(workers[w].command, workers[w].path)
          IN  /\ workers[w].raised = ""
              /\ Outcome(workers[w].ret) = Outcome(Sequential(w).ret)
              /\ action_name \in DOMAIN actions
                    => Outcome(actions[action_name]) = Outcome(Sequential(w).ret)

\* the keyword names of a call
Keywords(kwargs) == {kv[1] : kv \in kwargs}

\* C16: a dispatched request that resolves to an Action calls its handler
\* with url, with query exactly when the query string is not empty, with
\* form and files exactly when the request has them, and with nothing else.
C16_HandlerParameters ==
    /\ (Dispatched /\ last.ret.type = "Action") => reply.invoked.type = "function"
    /\ (Dispatched /\ reply.invoked.type = "function") =>
          /\ reply.kwargs = parameters(last.path, <<"form", Fields>> \in reply.kwargs,
                                       <<"files", Fields>> \in reply.kwargs)
          /\ "query" \in Keywords(reply.kwargs) <=> urlparse_query(last.path) # <<>>
          /\ (last.command = "GET" /\ urlparse_query(last.path) = <<>>)
                => Keywords(reply.kwargs) = {"url"}

\* the first loaded source is a module-origin one and the last resolution
\* went through it
FirstSourceIsModule ==
    /\ Called /\ ~last.hit /\ ~LoadRaised
    /\ Loaded # <<>> /\ Loaded[1].origin = "module"

\* C17: with fallback enabled, when no prefix of the unconsumed segments has
\* a function on the handle, the function named by the lowercased verb and
\* then the function `any` of that handle are tried, and the one found is
\* returned with origin fallback.
C17_BareVerbAfterFallback ==
    (fallback /\ FirstSourceIsModule /\ last.raised = "") =>
      LET d == find_module(Loaded[1].module, split_parts(last.path))
      IN  ( /\ d.raised = "" /\ d.parts # <<>>
            /\ \A t \in Prefixes(d.parts) : ~HasCandidate(d.module, last.command, t)
            /\ HasCatchall(d.module, last.command) )
          => /\ last.ret.type = "Action"
             /\ last.ret.handler =
                   Function(d.module, FirstDefined(d.module, CatchallNames(last.command)))
             /\ last.ret.origin = "fallback"

IsSuffix(tail, parts) ==
    Len(tail) <= Len(parts) /\ tail = SubSeq(parts, Len(parts) - Len(tail) + 1, Len(parts))

\* C18: the descent into a module-origin source consumes the leading
\* segments that name sub-modules which load and stops at the first one that
\* does not, without letting an exception out: the tail is a suffix of the
\* segments and the handle is the sub-module that the consumed segments
\* name; POST /m/x descends into m and matches post_x with origin direct.
C18_ModuleDescent ==
    FirstSourceIsModule =>
      LET parts == split_parts(last.path)
          d == find_module(Loaded[1].module, parts)
      IN  /\ d.raised = ""
          /\ ~(last.stage = "Raised" /\ last.module = d.module)
          /\ IsSuffix(d.parts, parts)
          /\ d.module = Module(Loaded[1].identifier,
                               SubSeq(parts, 1, Len(parts) - Len(d.parts)))
          /\ (d.parts # <<>> /\ d.parts # parts) =>
                find_spec_sub(d.module, Head(d.parts)).status # "loaded"
          /\ (last.command = "POST" /\ parts = <<<<"m">>, <<"x">>>>
               /\ Loaded[1].identifier = "s1")
                => /\ last.stage = "SourceResolution"
                   /\ last.tail = <<<<"x">>>>
                   /\ Outcome(last.ret) =
                         <<Function(Module("s1", <<<<"m">>>>), Name(<<"post", "x">>)), "direct">>

\* C19: the descent into a path-origin source consumes the sub-directories,
\* imports the next segment as the file module and returns it with the
\* segments after it; a missing directory or file, or no segment left, ends
\* the descent without an exception.
C19_PathDescent ==
    (Called /\ ~last.hit /\ ~LoadRaised /\ Loaded # <<>> /\ Loaded[1].origin = "path") =>
      /\ last.raised = ""
      /\ last.stage \in {"SourceResolution", "GlobalCatchallSweep", "ErrorLookup", "Miss"}

\* C20: an Action made by a fallback match is bound to the parsed URL of the
\* request that made it, and the Action that the error lookup returns is
\* bound to the parsed URL of the request that is being resolved.
C20_BoundContext ==
    /\ (Called /\ last.new /\ last.ret.origin = "fallback")
          => last.ret.kwargs = original_url(last.path)
    /\ (Called /\ last.stage = "ErrorLookup")
          => /\ last.new
             /\ last.ret.kwargs = original_url(last.path)

\* C21: whenever a handler is called with original_url, the value is the
\* parsed URL (path and query string) of the request that is dispatched,
\* never that of an earlier request with the same verb and path.
C21_OriginalUrlIsCurrent ==
    (Dispatched /\ reply.invoked.type = "function") =>
      \A kv \in reply.kwargs : kv[1] = "original_url" => kv[2] = last.path

====
